---- MODULE Spec2Model ----
(***************************************************************************)
(* Monte Carlo Tree Search engine of mct-rs: the node arena (node.rs), the *)
(* UCB1 bandit (ucb1.rs), the random rollout policy (policy.rs), the MDP   *)
(* contract with its default execute (mdp.rs) and the search driver with   *)
(* its final action strategies (mcts.rs).                                  *)
(*                                                                         *)
(* An Rc<Node> is the index of the node in the sequence nodes (the root is *)
(* index 1); a Weak parent link is the parent's index, 0 for Weak::new().  *)
(* An Option is a sequence of length 0 (None) or 1 (Some).  Rewards are    *)
(* integers and the discount factor is 1, so every f64 sum is exact; a     *)
(* mean score/visits is compared by cross-multiplication.                  *)
(***************************************************************************)
EXTENDS Integers, Sequences, FiniteSets, TLC

VARIABLES
    mdp,                \* the MDP the MCTS instance was built with (MCTS.mdp)
    nodes,              \* the tree: every Node reachable from MCTS.root
    q_table,            \* UCB1.q_table of MCTS.bandit
    pc,                 \* position of the caller / of MCTS::mcts
    timeout,            \* argument of the running MCTS::mcts call
    elapsed,            \* start_time.elapsed().as_millis(), saturated at timeout
    cur,                \* the node Node::select is currently called on
    selected_node,      \* mcts: let selected_node
    child,              \* mcts: let child
    sim,                \* simulate: state, cumulative_reward, depth
    reward,             \* mcts: let reward
    calls,              \* number of MCTS::mcts calls made so far
    best,               \* result of the last MCTS::best_action call
    returned,           \* history: per node, the returns back-propagated through it
    pre                 \* history: nodes as they were when the call or iteration began

vars == <<mdp, nodes, q_table, pc, timeout, elapsed, cur, selected_node,
          child, sim, reward, calls, best, returned, pre>>

----------------------------------------------------------------------------
(* Bounds of the model *)

\* most nodes the tree may hold
MaxNodes == 5
\* most calls of MCTS::mcts on one instance
MaxCalls == 2
\* DummyMDP is terminal from this state on
DummyGoal == 3

----------------------------------------------------------------------------
(* Options *)

None == <<>>
Some(x) == <<x>>
IsSome(o) == Len(o) = 1
Unwrap(o) == o[1]

----------------------------------------------------------------------------
(* Helpers on sequences *)

Range(s) == {s[i] : i \in DOMAIN s}

RECURSIVE SumSeq(_)
SumSeq(s) == IF s = <<>> THEN 0 ELSE s[1] + SumSeq(Tail(s))

----------------------------------------------------------------------------
(* The MDPs the engine is run on *)

MDPs == {"OneStep", "Dummy", "Coin", "DeadEnd"}

\* The deadlines (ms) handed to MCTS::mcts.  The clock is only ever compared
\* with the deadline, and any number of iterations fits into one millisecond,
\* so a deadline of 1 ms stands for every non-zero deadline.
Timeouts == {0, 1}

\* genrand(min, max): every x with min <= x < max; the assertion min < max
\* fails (a panic) when the set is empty
genrand(min, max) == min .. (max - 1)

GetInitialState(m) == 0

\* MDP::get_actions
GetActions(m, s) ==
    CASE m = "OneStep" -> IF s = 0 THEN <<"A", "B">> ELSE <<>>
      [] m = "Dummy"   -> <<"A", "B">>
      [] m = "Coin"    -> IF s = 0 THEN <<"A", "B">>
                          ELSE IF s = 2 THEN <<"A">> ELSE <<>>
      [] m = "DeadEnd" -> IF s = 0 THEN <<"A">> ELSE <<>>

\* MDP::is_terminal
IsTerminal(m, s) ==
    CASE m = "OneStep" -> s \in {1, 2}
      [] m = "Dummy"   -> s >= DummyGoal
      [] m = "Coin"    -> s \in {1, 3}
      [] m = "DeadEnd" -> FALSE

\* MDP::get_discount_factor
GetDiscountFactor(m) == 1

\* MDP::get_transitions: <<next state, probability in 1/1000>>
GetTransitions(m, s, a) ==
    CASE m = "Coin" /\ s = 0 /\ a = "A" -> << <<1, 500>>, <<2, 500>> >>
      [] m = "Coin" /\ s = 0 /\ a = "B" -> << <<2, 1000>> >>
      [] m = "Coin" /\ s = 2            -> << <<3, 1000>> >>
      [] OTHER                          -> <<>>

\* MDP::get_reward
GetReward(m, s, a, next_state) ==
    IF m = "Coin" /\ next_state = 1 THEN 1 ELSE 0

\* whether the MDP brings its own execute (as DummyMDP and TicTacToeMDP do)
OverridesExecute(m) == m # "Coin"

\* let r = (genrand(0, 1000) as f64) / 1000.0
DrawRange == 1000

\* cumulative probability of the first i transitions
RECURSIVE Cumulative(_, _)
Cumulative(transitions, i) ==
    IF i = 0 THEN 0 ELSE Cumulative(transitions, i - 1) + transitions[i][2]

\* The draws of genrand(0, DrawRange) that execute is run on.  The scan of
\* the cumulative distribution gives one result for all draws between two
\* consecutive cumulative sums, so the draw 0 and the draws at and right after
\* each cumulative sum stand for all of them.
Draws(transitions) ==
    LET sums == {Cumulative(transitions, i) : i \in DOMAIN transitions}
    IN  ({0} \cup sums \cup {c + 1 : c \in sums}) \cap genrand(0, DrawRange)

\* position(|(_, p)| { cumulative += p; cumulative >= r }).unwrap_or(0)
RECURSIVE Position(_, _, _, _)
Position(transitions, i, cumulative, r) ==
    IF i > Len(transitions) THEN 1
    ELSE IF cumulative + transitions[i][2] >= r THEN i
         ELSE Position(transitions, i + 1, cumulative + transitions[i][2], r)

\* the default MDP::execute, r the uniform draw
DefaultExecute(m, s, a, r) ==
    LET transitions == GetTransitions(m, s, a)
        chosen_state == transitions[Position(transitions, 1, 0, r)][1]
    IN  [state |-> chosen_state, reward |-> GetReward(m, s, a, chosen_state)]

\* MDP::execute: (next_state, reward)
Execute(m, s, a, r) ==
    CASE m = "OneStep" -> [state |-> IF a = "A" THEN 1 ELSE 2,
                           reward |-> IF a = "A" THEN 1 ELSE 0]
      [] m = "Dummy"   -> [state |-> IF a = "A" THEN s + 1 ELSE s + 2,
                           reward |-> s]
      [] m = "DeadEnd" -> [state |-> s + 1, reward |-> 0]
      [] OTHER         -> DefaultExecute(m, s, a, r)

\* every outcome execute can sample
ExecuteOutcomes(m, s, a) ==
    {Execute(m, s, a, r) : r \in Draws(GetTransitions(m, s, a))}

----------------------------------------------------------------------------
(* Node *)

\* Node::new counting the creation of the node as its first visit
NewNodeVisited(state, action, score, parent) ==
    [state    |-> state,
     action   |-> action,
     parent   |-> parent,
     children |-> <<>>,
     visits   |-> 1,
     score    |-> IF IsSome(score) THEN Unwrap(score) ELSE 0,
     reward   |-> score]

\* Node::new
NewNode(state, action, score, parent) ==
    [state    |-> state,
     action   |-> action,
     parent   |-> parent,
     children |-> <<>>,
     visits   |-> 0,
     score    |-> IF IsSome(score) THEN Unwrap(score) ELSE 0,
     reward   |-> score]

\* actions of the children: children.iter().flat_map(|c| c.action)
Explored(ns, n) ==
    LET ch == ns[n].children
        acts == [i \in DOMAIN ch |-> ns[ch[i]].action]
        some(o) == IsSome(o)
        opts == SelectSeq(acts, some)
    IN  [i \in DOMAIN opts |-> Unwrap(opts[i])]

\* a node that never counts as fully expanded
IsFullExpandedNever(m, ns, n) == FALSE

\* Node::is_full_expanded
IsFullExpanded(m, ns, n) ==
    Len(GetActions(m, ns[n].state)) = Len(Explored(ns, n))

\* a lookup that gives up after the first child
FindChildFirstOnly(ns, ch, i, a) ==
    IF ch # <<>> /\ ns[ch[1]].action = Some(a) THEN ch[1] ELSE 0

\* the first child of n produced by action a, 0 when there is none
RECURSIVE FindChild(_, _, _, _)
FindChild(ns, ch, i, a) ==
    IF i > Len(ch) THEN 0
    ELSE IF ns[ch[i]].action = Some(a) THEN ch[i]
         ELSE FindChild(ns, ch, i + 1, a)

\* the first child of n whose state is s, 0 when there is none
RECURSIVE FindChildByState(_, _, _, _)
FindChildByState(ns, ch, i, s) ==
    IF i > Len(ch) THEN 0
    ELSE IF ns[ch[i]].state = s THEN ch[i]
         ELSE FindChildByState(ns, ch, i + 1, s)

\* get_outcome_child looking the child up by the sampled state
GetOutcomeChildByState(ns, n, a, outcome) ==
    LET existing == FindChildByState(ns, ns[n].children, 1, outcome.state)
        id == Len(ns) + 1
        new_child == [state |-> outcome.state, action |-> Some(a), parent |-> n,
                      children |-> <<>>, visits |-> 0,
                      score |-> outcome.reward, reward |-> Some(outcome.reward)]
    IN  IF existing # 0
        THEN [nodes |-> ns, child |-> existing]
        ELSE [nodes |-> Append([ns EXCEPT ![n].children = Append(@, id)],
                               new_child),
              child |-> id]

\* get_outcome_child creating the child with Weak::new() as its parent link
GetOutcomeChildDetached(ns, n, a, outcome) ==
    LET existing == FindChild(ns, ns[n].children, 1, a)
        id == Len(ns) + 1
        new_child == [state |-> outcome.state, action |-> Some(a), parent |-> 0,
                      children |-> <<>>, visits |-> 0,
                      score |-> outcome.reward, reward |-> Some(outcome.reward)]
    IN  IF existing # 0
        THEN [nodes |-> ns, child |-> existing]
        ELSE [nodes |-> Append([ns EXCEPT ![n].children = Append(@, id)],
                               new_child),
              child |-> id]

\* get_outcome_child that puts a new child in front of the existing ones
GetOutcomeChildInFront(ns, n, a, outcome) ==
    LET existing == FindChild(ns, ns[n].children, 1, a)
        id == Len(ns) + 1
        new_child == NewNode(outcome.state, Some(a), Some(outcome.reward), n)
    IN  IF existing # 0
        THEN [nodes |-> ns, child |-> existing]
        ELSE [nodes |-> Append([ns EXCEPT ![n].children = <<id>> \o @],
                               new_child),
              child |-> id]

\* Node::get_outcome_child, outcome the result of mdp.execute
GetOutcomeChild(ns, n, a, outcome) ==
    LET existing == FindChild(ns, ns[n].children, 1, a)
        id == Len(ns) + 1
        new_child == NewNode(outcome.state, Some(a), Some(outcome.reward), n)
    IN  IF existing # 0
        THEN [nodes |-> ns, child |-> existing]
        ELSE [nodes |-> Append([ns EXCEPT ![n].children = Append(@, id)],
                               new_child),
              child |-> id]

\* back_propagate that does not go on to the parent
BackPropagateNodeOnly(ns, n, r) ==
    [ns EXCEPT ![n].visits = @ + 1, ![n].score = @ + r]

\* back_propagate that adds the stored transition reward of each node to the
\* value it hands to the parent
RECURSIVE BackPropagateOwnReward(_, _, _)
BackPropagateOwnReward(ns, n, r) ==
    LET upd == [ns EXCEPT ![n].visits = @ + 1, ![n].score = @ + r]
        own == IF IsSome(ns[n].reward) THEN Unwrap(ns[n].reward) ELSE 0
    IN  IF ns[n].parent # 0
        THEN BackPropagateOwnReward(upd, ns[n].parent, r + own)
        ELSE upd

\* Node::back_propagate
RECURSIVE BackPropagate(_, _, _)
BackPropagate(ns, n, r) ==
    LET upd == [ns EXCEPT ![n].visits = @ + 1, ![n].score = @ + r]
    IN  IF ns[n].parent # 0 THEN BackPropagate(upd, ns[n].parent, r) ELSE upd

\* n and its ancestors, following the parent links up to the root
RECURSIVE PathToRoot(_, _)
PathToRoot(ns, n) ==
    IF n = 0 THEN {} ELSE {n} \cup PathToRoot(ns, ns[n].parent)

\* Node::q_value as the fraction <<numerator, denominator>>
QValue(node) ==
    IF node.visits = 0 THEN <<0, 1>> ELSE <<node.score, node.visits>>

\* comparisons of two such fractions (denominators are positive)
QLess(p, q) == p[1] * q[2] < q[1] * p[2]
QEqual(p, q) == p[1] * q[2] = q[1] * p[2]

----------------------------------------------------------------------------
(* RandomRollout (policy.rs) and MCTS::choose *)

\* RandomRollout::pick: the actions it can return; none when genrand panics
Pick(actions) ==
    IF Len(actions) = 1 THEN {actions[1]}
    ELSE {actions[i + 1] : i \in genrand(0, Len(actions))}

\* MCTS::choose
Choose(m, s) ==
    LET actions == GetActions(m, s)
    IN  IF Len(actions) = 1 THEN {actions[1]}
        ELSE {actions[i + 1] : i \in genrand(0, Len(actions))}

\* MCTS::heuristic_eval
HeuristicEval(s) == 0

\* f64::powi for the integer base the MDPs use
RECURSIVE Powi(_, _)
Powi(x, k) == IF k = 0 THEN 1 ELSE x * Powi(x, k - 1)

----------------------------------------------------------------------------
(* UCB1 (ucb1.rs) *)

\* UCB1::get_q_value; the id of a node is its index
GetQValue(table, id) == IF id \in DOMAIN table THEN table[id] ELSE 0

\* q + C * sqrt(ln(total.max(1)) / child_visits), kept as its three inputs
UcbValue(q, total, child_visits) ==
    [q |-> q, total |-> IF total < 1 THEN 1 ELSE total, n |-> child_visits]

\* sign of the difference of the exploration terms of v and w (same total):
\* ln(1) = 0 makes both terms 0, otherwise fewer visits give the larger term
ExplorationCmp(v, w) ==
    IF v.total = 1 \/ v.n = w.n THEN 0 ELSE IF v.n < w.n THEN 1 ELSE -1

\* sign of v - w for two UCB values over the same total.  Opposite orders of
\* the q parts and the exploration terms would need the magnitudes; no such
\* pair is ever compared, so that case is left without a value.
ValueCmp(v, w) ==
    LET e == ExplorationCmp(v, w)
        c == IF v.q > w.q THEN 1 ELSE IF v.q < w.q THEN -1 ELSE 0
    IN  IF c = 0 THEN e
        ELSE IF e = 0 \/ e = c THEN c
        ELSE CHOOSE x \in {} : TRUE

\* a search for an untried action that finds none
FindUntriedNone(ns, n, actions, i) == None

\* the first action of actions that no child of n was produced by
RECURSIVE FindUntried(_, _, _, _)
FindUntried(ns, n, actions, i) ==
    IF i > Len(actions) THEN None
    ELSE IF FindChild(ns, ns[n].children, 1, actions[i]) = 0
         THEN Some(actions[i])
         ELSE FindUntried(ns, n, actions, i + 1)

\* the loop of UCB1::select over the children, from the i-th on:
\* ret is the early return for a child without visits
RECURSIVE UcbScan(_, _, _, _, _, _, _)
UcbScan(table, ns, ch, i, total, best_value, best_actions) ==
    IF i > Len(ch) THEN [ret |-> None, best_actions |-> best_actions]
    ELSE
      LET c == ns[ch[i]]
          value == UcbValue(GetQValue(table, ch[i]), total, c.visits)
      IN  IF c.visits = 0
          THEN [ret |-> Some(Unwrap(c.action)), best_actions |-> best_actions]
          ELSE IF best_value = None \/ ValueCmp(value, Unwrap(best_value)) = 1
          THEN UcbScan(table, ns, ch, i + 1, total, Some(value),
                       <<Unwrap(c.action)>>)
          ELSE IF ValueCmp(value, Unwrap(best_value)) = 0
          THEN UcbScan(table, ns, ch, i + 1, total, best_value,
                       Append(best_actions, Unwrap(c.action)))
          ELSE UcbScan(table, ns, ch, i + 1, total, best_value, best_actions)

\* total: the visits of the children of n, added up
BanditTotal(ns, n) ==
    LET ch == ns[n].children
    IN  SumSeq([i \in DOMAIN ch |-> ns[ch[i]].visits])

\* a bandit that answers with a fixed action where genrand would panic
BanditSelectRecovers(table, ns, n, actions) ==
    LET untried == FindUntried(ns, n, actions, 1)
        ch == ns[n].children
        scan == UcbScan(table, ns, ch, 1, BanditTotal(ns, n), None, <<>>)
    IN  IF IsSome(untried) THEN {Unwrap(untried)}
        ELSE IF IsSome(scan.ret) THEN {Unwrap(scan.ret)}
        ELSE IF scan.best_actions = <<>> THEN {"A"}
        ELSE {scan.best_actions[idx + 1] :
                 idx \in genrand(0, Len(scan.best_actions))}

\* UCB1::select: the actions it can return; none when genrand panics
BanditSelect(table, ns, n, actions) ==
    LET untried == FindUntried(ns, n, actions, 1)
        ch == ns[n].children
        total == BanditTotal(ns, n)
        scan == UcbScan(table, ns, ch, 1, total, None, <<>>)
    IN  IF IsSome(untried) THEN {Unwrap(untried)}
        ELSE IF IsSome(scan.ret) THEN {Unwrap(scan.ret)}
        ELSE {scan.best_actions[idx + 1] :
                 idx \in genrand(0, Len(scan.best_actions))}

----------------------------------------------------------------------------
(* Node::expand *)

\* the candidate list without the filter on the explored actions
ExpandableActionsUnfiltered(m, ns, n) == GetActions(m, ns[n].state)

\* the legal actions without a child: actions.filter(|a| !explored.contains(a))
ExpandableActions(m, ns, n) ==
    LET explored == Range(Explored(ns, n))
        fresh(a) == a \notin explored
    IN  SelectSeq(GetActions(m, ns[n].state), fresh)

\* Node::expand without its test for a terminal state
ExpandNoTerminalTest(m, ns, n) ==
    {GetOutcomeChild(ns, n, a, o) :
        <<a, o>> \in UNION {{<<b, x>> : x \in ExecuteOutcomes(m, ns[n].state, b)} :
                              b \in Pick(ExpandableActions(m, ns, n))}}

\* Node::expand: every (tree, returned node) it can end with; none when the
\* policy panics on an empty candidate list
Expand(m, ns, n) ==
    IF IsTerminal(m, ns[n].state) THEN {[nodes |-> ns, child |-> n]}
    ELSE {GetOutcomeChild(ns, n, a, o) :
             <<a, o>> \in UNION {{<<b, x>> : x \in ExecuteOutcomes(m, ns[n].state, b)} :
                                   b \in Pick(ExpandableActions(m, ns, n))}}

----------------------------------------------------------------------------
(* MCTS::best_action *)

Strategies == {"MostVisited", "HighestQValue", "Probabilistic", "HeuristicWin"}

Root == 1

\* the same scan keeping the child with the fewest visits
RECURSIVE MinByVisits(_, _, _, _)
MinByVisits(ns, ch, i, acc) ==
    IF i > Len(ch) THEN acc
    ELSE MinByVisits(ns, ch, i + 1,
                     IF ns[acc].visits < ns[ch[i]].visits THEN acc ELSE ch[i])

\* Iterator::max_by_key(|c| c.visits) from the i-th child on, acc the maximum
\* so far: a later child replaces acc unless acc is strictly greater
RECURSIVE MaxByVisits(_, _, _, _)
MaxByVisits(ns, ch, i, acc) ==
    IF i > Len(ch) THEN acc
    ELSE MaxByVisits(ns, ch, i + 1,
                     IF ns[acc].visits > ns[ch[i]].visits THEN acc ELSE ch[i])

\* Iterator::max_by(|a, b| a.q_value().partial_cmp(&b.q_value()))
RECURSIVE MaxByQValue(_, _, _, _)
MaxByQValue(ns, ch, i, acc) ==
    IF i > Len(ch) THEN acc
    ELSE MaxByQValue(ns, ch, i + 1,
                     IF QLess(QValue(ns[ch[i]]), QValue(ns[acc])) THEN acc
                     ELSE ch[i])

\* the draws genrand(0, 10_000) of the Probabilistic strategy
SoftmaxDraws == 10000

\* The draws of genrand(0, SoftmaxDraws) the walk over n equal probabilities
\* is run on: the walk gives one result for all draws between two consecutive
\* multiples of SoftmaxDraws / n, so the draw 0 and the draws next to each
\* multiple stand for all of them.
UniformDraws(n) ==
    LET cuts == {(i * SoftmaxDraws) \div n : i \in 1 .. n}
    IN  ({0} \cup cuts \cup {c + 1 : c \in cuts}) \cap genrand(0, SoftmaxDraws)

\* a walk that never stops and always ends in the fallback children[0]
UniformWalkFallback(n, r) == 1

\* the walk `r -= p; if r <= 0.0 { return children[i] }` over n probabilities
\* 1/n for the draw r, with children[0] as the fallback: the index returned
UniformWalk(n, r) ==
    LET stops == {i \in 1 .. n : r * n <= i * SoftmaxDraws}
    IN  IF stops = {} THEN 1
        ELSE CHOOSE i \in stops : \A j \in stops : i <= j

\* Strategy::Probabilistic: the children it can return.  When all mean
\* rewards are equal every exp(q - maxq) is 1 and every probability is 1/n.
\* With unequal mean rewards the probabilities are irrational; every child
\* is then taken as a possible result.
Probabilistic(ns, ch) ==
    LET n == Len(ch)
        equal == \A i \in DOMAIN ch : QEqual(QValue(ns[ch[i]]), QValue(ns[ch[1]]))
    IN  IF equal THEN {ch[UniformWalk(n, r)] : r \in UniformDraws(n)}
        ELSE Range(ch)

\* child.reward: the reward of the transition that created the node
NodeReward(node) == node.reward

\* the loop of Strategy::HeuristicWin from the i-th child on
RECURSIVE WinScan(_, _, _, _, _, _)
WinScan(ns, ch, i, winning_mvs, bestq, best_mvs) ==
    IF i > Len(ch)
    THEN [winning_mvs |-> winning_mvs, best_mvs |-> best_mvs]
    ELSE
      LET c == ns[ch[i]]
          q == QValue(c)
      IN  IF IsSome(NodeReward(c)) /\ Unwrap(NodeReward(c)) > 0
          THEN WinScan(ns, ch, i + 1, Append(winning_mvs, ch[i]), bestq, best_mvs)
          ELSE IF bestq = None \/ QLess(Unwrap(bestq), q)
          THEN WinScan(ns, ch, i + 1, winning_mvs, Some(q), <<ch[i]>>)
          ELSE IF QEqual(q, Unwrap(bestq))
          THEN WinScan(ns, ch, i + 1, winning_mvs, bestq, Append(best_mvs, ch[i]))
          ELSE WinScan(ns, ch, i + 1, winning_mvs, bestq, best_mvs)

\* the choice of HeuristicWin with the two lists in the other order
HeuristicWinBestFirst(ns, ch) ==
    LET scan == WinScan(ns, ch, 1, <<>>, None, <<>>)
        mvs == IF scan.best_mvs # <<>> THEN scan.best_mvs
               ELSE scan.winning_mvs
    IN  {mvs[i + 1] : i \in genrand(0, Len(mvs))}

\* Strategy::HeuristicWin: the children it can return
HeuristicWin(ns, ch) ==
    LET scan == WinScan(ns, ch, 1, <<>>, None, <<>>)
        mvs == IF scan.winning_mvs # <<>> THEN scan.winning_mvs
               ELSE scan.best_mvs
    IN  {mvs[i + 1] : i \in genrand(0, Len(mvs))}

\* MCTS::best_action: the Option<A> results it can return
BestAction(ns, strategy) ==
    LET ch == ns[Root].children
        chosen == CASE strategy = "MostVisited"   -> {MaxByVisits(ns, ch, 2, ch[1])}
                    [] strategy = "HighestQValue" -> {MaxByQValue(ns, ch, 2, ch[1])}
                    [] strategy = "Probabilistic" -> Probabilistic(ns, ch)
                    [] strategy = "HeuristicWin"  -> HeuristicWin(ns, ch)
    IN  IF ch = <<>> THEN {None} ELSE {ns[c].action : c \in chosen}

----------------------------------------------------------------------------
(* The state machine: MCTS::new, then calls of MCTS::mcts and best_action *)

NoResult == [strategy |-> "none", action |-> None]
NoSim == [state |-> 0, cumulative_reward |-> 0, depth |-> 0]

\* MCTS::new(mdp)
Init ==
    /\ mdp \in MDPs
    /\ nodes = <<NewNode(GetInitialState(mdp), None, None, 0)>>
    /\ q_table = <<>>
    /\ pc = "idle"
    /\ timeout = 0
    /\ elapsed = 0
    /\ cur = 0
    /\ selected_node = 0
    /\ child = 0
    /\ sim = NoSim
    /\ reward = 0
    /\ calls = 0
    /\ best = NoResult
    /\ returned = <<0>>
    /\ pre = nodes

\* history: a created node has had no return back-propagated through it
Grown(hist, ns) == hist \o [i \in 1 .. (Len(ns) - Len(hist)) |-> 0]

\* the caller starts MCTS::mcts(t): let start_time = Instant::now()
Mcts(t) ==
    /\ pc = "idle"
    /\ calls < MaxCalls
    /\ calls' = calls + 1
    /\ timeout' = t
    /\ elapsed' = 0
    /\ pc' = "loop"
    /\ best' = NoResult
    /\ pre' = nodes
    /\ UNCHANGED <<mdp, nodes, q_table, cur, selected_node, child, sim, reward,
                   returned>>

\* a millisecond of wall-clock time passes while mcts runs; the clock is read
\* by the two while conditions only, so time passes right before them
Tick ==
    /\ pc \in {"loop", "simulate"}
    /\ elapsed < timeout
    /\ elapsed' = elapsed + 1
    /\ UNCHANGED <<mdp, nodes, q_table, pc, timeout, cur, selected_node, child,
                   sim, reward, calls, best, returned, pre>>

\* the deadline test with <= for <
BeforeDeadlineInclusive(e, t) == e <= t

\* start_time.elapsed().as_millis() < timeout
BeforeDeadline(e, t) == e < t

\* the while condition of MCTS::mcts; its locals are dropped on return
LoopCheck ==
    /\ pc = "loop"
    /\ IF BeforeDeadline(elapsed, timeout)
       THEN /\ pc' = "select"
            /\ cur' = Root
            /\ pre' = nodes
            /\ UNCHANGED <<selected_node, child, sim, reward>>
       ELSE /\ pc' = "idle"
            /\ cur' = 0
            /\ selected_node' = 0
            /\ child' = 0
            /\ sim' = NoSim
            /\ reward' = 0
            /\ pre' = nodes
    /\ UNCHANGED <<mdp, nodes, q_table, timeout, elapsed, calls, best, returned>>

\* the test with one of its two halves only
SelectStopsNoTerminal(m, ns, n) == ~IsFullExpanded(m, ns, n)

SelectStopsOnlyTerminal(m, ns, n) == IsTerminal(m, ns[n].state)

\* the test of Node::select that makes it return the node it was called on
SelectStops(m, ns, n) ==
    ~IsFullExpanded(m, ns, n) \/ IsTerminal(m, ns[n].state)

\* one call of Node::select, on cur: it returns cur, or asks the bandit for
\* an action and calls select on the child of that action
Select ==
    /\ pc = "select"
    /\ IF SelectStops(mdp, nodes, cur)
       THEN /\ selected_node' = cur
            /\ pc' = "selected"
            /\ UNCHANGED <<nodes, cur, returned>>
       ELSE LET actions == GetActions(mdp, nodes[cur].state)
                picks == BanditSelect(q_table, nodes, cur, actions)
            IN  IF picks = {}
                THEN /\ pc' = "panic"
                     /\ UNCHANGED <<nodes, cur, selected_node, returned>>
                ELSE \E action \in picks :
                       \E o \in ExecuteOutcomes(mdp, nodes[cur].state, action) :
                         LET got == GetOutcomeChild(nodes, cur, action, o)
                         IN  /\ Len(got.nodes) <= MaxNodes
                             /\ nodes' = got.nodes
                             /\ cur' = got.child
                             /\ returned' = Grown(returned, got.nodes)
                             /\ UNCHANGED <<pc, selected_node>>
    /\ UNCHANGED <<mdp, q_table, timeout, elapsed, child, sim, reward, calls,
                   best, pre>>

\* if !self.mdp.is_terminal(&selected_node.state) fails: the iteration ends
SkipTerminal ==
    /\ pc = "selected"
    /\ IsTerminal(mdp, nodes[selected_node].state)
    /\ pc' = "loop"
    /\ UNCHANGED <<mdp, nodes, q_table, timeout, elapsed, cur, selected_node,
                   child, sim, reward, calls, best, returned, pre>>

\* let child = selected_node.expand(..), and the entry of simulate(&child, ..)
ExpandSelected ==
    /\ pc = "selected"
    /\ ~IsTerminal(mdp, nodes[selected_node].state)
    /\ LET results == Expand(mdp, nodes, selected_node)
       IN  IF results = {}
           THEN /\ pc' = "panic"
                /\ UNCHANGED <<nodes, child, sim, returned>>
           ELSE \E got \in results :
                  /\ Len(got.nodes) <= MaxNodes
                  /\ nodes' = got.nodes
                  /\ child' = got.child
                  /\ returned' = Grown(returned, got.nodes)
                  /\ sim' = [state |-> got.nodes[got.child].state,
                             cumulative_reward |-> 0, depth |-> 0]
                  /\ pc' = "simulate"
    /\ UNCHANGED <<mdp, q_table, timeout, elapsed, cur, selected_node, reward,
                   calls, best, pre>>

\* one turn of the while loop of MCTS::simulate
SimulateStep ==
    /\ pc = "simulate"
    /\ ~IsTerminal(mdp, sim.state)
    /\ BeforeDeadline(elapsed, timeout)
    /\ LET actions == Choose(mdp, sim.state)
       IN  IF actions = {}
           THEN /\ pc' = "panic"
                /\ UNCHANGED sim
           ELSE \E action \in actions :
                  \E o \in ExecuteOutcomes(mdp, sim.state, action) :
                    /\ sim' = [state |-> o.state,
                               cumulative_reward |->
                                   sim.cumulative_reward
                                   + Powi(GetDiscountFactor(mdp), sim.depth) * o.reward,
                               depth |-> sim.depth + 1]
                    /\ UNCHANGED pc
    /\ UNCHANGED <<mdp, nodes, q_table, timeout, elapsed, cur, selected_node,
                   child, reward, calls, best, returned, pre>>

\* the tree after the while loop of MCTS::simulate: *node.visits.borrow_mut() += 1
SimulateExit(ns, n) == [ns EXCEPT ![n].visits = @ + 1]

\* the end of MCTS::simulate: the loop is left, the return value is computed
SimulateReturn ==
    /\ pc = "simulate"
    /\ ~(~IsTerminal(mdp, sim.state) /\ BeforeDeadline(elapsed, timeout))
    /\ reward' = sim.cumulative_reward
                 + (IF ~IsTerminal(mdp, sim.state) THEN HeuristicEval(sim.state) ELSE 0)
    /\ nodes' = SimulateExit(nodes, child)
    /\ pc' = "backprop"
    /\ UNCHANGED <<mdp, q_table, timeout, elapsed, cur, selected_node, child,
                   sim, calls, best, returned, pre>>

\* child.back_propagate(reward, &mut self.bandit)
BackProp ==
    /\ pc = "backprop"
    /\ nodes' = BackPropagate(nodes, child, reward)
    /\ returned' = [i \in DOMAIN returned |->
                       IF i \in PathToRoot(nodes, child)
                       THEN returned[i] + reward ELSE returned[i]]
    /\ pc' = "loop"
    /\ UNCHANGED <<mdp, q_table, timeout, elapsed, cur, selected_node, child,
                   sim, reward, calls, best, pre>>

\* the caller asks MCTS::best_action(strategy) between two searches
BestActionCall(strategy) ==
    /\ pc = "idle"
    /\ \E a \in BestAction(nodes, strategy) :
         best' = [strategy |-> strategy, action |-> a]
    /\ UNCHANGED <<mdp, nodes, q_table, pc, timeout, elapsed, cur,
                   selected_node, child, sim, reward, calls, returned, pre>>

Next ==
    \/ \E t \in Timeouts : Mcts(t)
    \/ Tick
    \/ LoopCheck
    \/ Select
    \/ SkipTerminal
    \/ ExpandSelected
    \/ SimulateStep
    \/ SimulateReturn
    \/ BackProp
    \/ \E strategy \in Strategies : BestActionCall(strategy)

Spec == Init /\ [][Next]_vars

----------------------------------------------------------------------------
(* Vocabulary of the properties *)

NodeIds == DOMAIN nodes

\* the actions of the children of n, in children order
ChildActions(ns, n) == [i \in DOMAIN ns[n].children |-> ns[ns[n].children[i]].action]

\* the legal actions at the state of n
LegalActions(n) == Range(GetActions(mdp, nodes[n].state))

\* an iteration of the driver loop that selected a non-terminal node has
\* just ended
IterationExpanded ==
    /\ pc = "loop"
    /\ selected_node # 0
    /\ ~IsTerminal(mdp, nodes[selected_node].state)

\* an iteration of the driver loop that selected a terminal node has just ended
IterationWasted ==
    /\ pc = "loop"
    /\ selected_node # 0
    /\ IsTerminal(mdp, nodes[selected_node].state)

----------------------------------------------------------------------------
(* C1 *)

NoDuplicateChild(ns) ==
    \A n \in DOMAIN ns : \A i, j \in DOMAIN ns[n].children :
        i # j => ns[ns[n].children[i]].action # ns[ns[n].children[j]].action

\* C1: in every state the search reaches, every node has at most one child
\* per action, and get_outcome_child(node, a) for an action a that already
\* has a child returns that child and leaves the tree as it is, whatever
\* outcome execute sampled; a second call with the same action returns the
\* child of the first call and adds nothing.
C1_OneChildPerAction ==
    /\ NoDuplicateChild(nodes)
    /\ \A n \in NodeIds : \A a \in LegalActions(n) :
         \A o1, o2 \in ExecuteOutcomes(mdp, nodes[n].state, a) :
            LET first == GetOutcomeChild(nodes, n, a, o1)
                second == GetOutcomeChild(first.nodes, n, a, o2)
            IN  /\ Some(a) \in Range(ChildActions(nodes, n))
                     => /\ first.nodes = nodes
                        /\ first.child \in Range(nodes[n].children)
                        /\ nodes[first.child].action = Some(a)
                /\ second.child = first.child
                /\ second.nodes = first.nodes
                /\ NoDuplicateChild(first.nodes)

\* C1 witness: select has just descended into the existing child of a fully
\* expanded node whose action has two possible outcomes
C1_Witness ==
    /\ pc = "select"
    /\ cur # Root
    /\ nodes = pre
    /\ Len(nodes[Root].children) = 2
    /\ Cardinality(ExecuteOutcomes(mdp, nodes[Root].state, "A")) = 2

----------------------------------------------------------------------------
(* C2, C3 *)

\* what a step taken from the call of back_propagate does to the visit counts
BackPropagateVisitsStep ==
    pc = "backprop" =>
         LET path == PathToRoot(nodes, child)
         IN  /\ DOMAIN nodes' = DOMAIN nodes
             /\ Root \in path
             /\ \A i \in NodeIds :
                  /\ i \in path => nodes'[i].visits = nodes[i].visits + 1
                  /\ i \notin path => /\ nodes'[i].visits = nodes[i].visits
                                      /\ nodes'[i].score = nodes[i].score

\* back_propagate(n, r) on the tree as it is: 1 more visit for n and each of
\* its ancestors, nothing else counted or scored
BackPropagateVisitsAt(n, r) ==
    LET after == BackPropagate(nodes, n, r)
        path == PathToRoot(nodes, n)
    IN  /\ DOMAIN after = NodeIds
        /\ Root \in path
        /\ \A i \in NodeIds :
             /\ i \in path => after[i].visits = nodes[i].visits + 1
             /\ i \notin path => /\ after[i].visits = nodes[i].visits
                                 /\ after[i].score = nodes[i].score

\* C2: back_propagate(N, r) adds exactly 1 to the visit count of N and of
\* every ancestor of N up to and including the root, and leaves visit count
\* and score of every other node as they were: for the call the driver makes
\* on the new child, and for a call on any node N of any tree the search
\* reaches, with a negative, a zero or a positive r.
C2_BackPropagateVisits ==
    /\ [](\A n \in NodeIds : \A r \in {-1, 0, 2} : BackPropagateVisitsAt(n, r))
    /\ [][BackPropagateVisitsStep]_vars

\* C2 witness: a back-propagation from a grandchild of the root has ended in
\* a tree that holds nodes off its path
C2_Witness ==
    /\ IterationExpanded
    /\ Cardinality(PathToRoot(nodes, child)) >= 3
    /\ Len(nodes) > Cardinality(PathToRoot(nodes, child))
    /\ \A i \in PathToRoot(nodes, child) \ {child} :
          nodes[i].visits = pre[i].visits + 1

\* what a step taken from the call of back_propagate does to the scores
BackPropagateScoreStep ==
    pc = "backprop" =>
         /\ pc' = "loop"
         /\ reward' = reward
         /\ \A i \in PathToRoot(nodes, child) :
              /\ nodes'[i].score = nodes[i].score + reward
              /\ nodes'[i].parent = nodes[i].parent
              /\ nodes'[i].children = nodes[i].children

\* back_propagate(n, r) on the tree as it is: r, as given, added once to the
\* score of n and of each of its ancestors, links untouched
BackPropagateScoreAt(n, r) ==
    LET after == BackPropagate(nodes, n, r)
    IN  \A i \in PathToRoot(nodes, n) :
           /\ after[i].score = nodes[i].score + r
           /\ after[i].parent = nodes[i].parent
           /\ after[i].children = nodes[i].children

\* C3: back_propagate(node, return_value) adds the return value, unchanged,
\* to the score of node and of each of its ancestors, once each, changes no
\* link of the tree, and ends at the root: for the call the driver makes
\* with the value simulate returned, after which the iteration is over, and
\* for a call on any node of any tree the search reaches.
C3_BackPropagateScore ==
    /\ [](\A n \in NodeIds : \A r \in {-1, 0, 2} : BackPropagateScoreAt(n, r))
    /\ [][BackPropagateScoreStep]_vars

\* C3 witness: a return other than 0 has been added along a path of three
\* nodes
C3_Witness ==
    /\ IterationExpanded
    /\ reward # 0
    /\ nodes[selected_node].parent = Root
    /\ nodes[child].parent = selected_node
    /\ nodes[Root].score = pre[Root].score + reward
    /\ nodes[selected_node].score = pre[selected_node].score + reward

----------------------------------------------------------------------------
(* C4 *)

\* visit count and score of every node
Statistics(ns) == [i \in DOMAIN ns |-> <<ns[i].visits, ns[i].score>>]

\* a step taken inside simulate keeps the statistics
SimulateStatisticsStep ==
    pc = "simulate" => Statistics(nodes') = Statistics(nodes)

\* C4 (as claimed): no step of simulate changes the visit count or the score
\* of any node of the tree.
C4_SimulateLeavesStatistics == [][SimulateStatisticsStep]_vars

----------------------------------------------------------------------------
(* C5 *)

\* a step taken inside select or expand keeps the statistics
SelectExpandStatisticsStep ==
    pc \in {"select", "selected"} =>
         /\ \A i \in NodeIds :
              /\ nodes'[i].visits = nodes[i].visits
              /\ nodes'[i].score = nodes[i].score
         /\ \A i \in DOMAIN nodes' \ NodeIds : nodes'[i].visits = 0

\* expand(n) on the tree as it is keeps the statistics of the nodes that
\* exist and gives a node it creates no visit
ExpandStatisticsAt(n) ==
    \A got \in Expand(mdp, nodes, n) :
        /\ \A i \in NodeIds :
             /\ got.nodes[i].visits = nodes[i].visits
             /\ got.nodes[i].score = nodes[i].score
        /\ \A i \in DOMAIN got.nodes \ NodeIds : got.nodes[i].visits = 0

\* C5: a step of select or of expand leaves visit count and score of every
\* node that exists unchanged, and a node it creates has visit count 0; so
\* does expand called on any node of any tree the search reaches.
C5_SelectExpandLeaveStatistics ==
    /\ [](\A n \in NodeIds : ExpandStatisticsAt(n))
    /\ [][SelectExpandStatisticsStep]_vars

\* C5 witness: select descended through a visited root and expand has just
\* created a child, still without visits, under a visited node
C5_Witness ==
    /\ pc = "simulate"
    /\ sim.depth = 0
    /\ selected_node # Root
    /\ Len(nodes) = Len(pre) + 1
    /\ nodes[child].visits = 0
    /\ nodes[selected_node].visits > 0
    /\ nodes[selected_node].visits = pre[selected_node].visits

----------------------------------------------------------------------------
(* C6 *)

\* C6 (as claimed): the score of every node is the sum of the returns
\* back-propagated through it, 0 for a node nothing was back-propagated
\* through.
C6_ScoreIsSumOfReturns ==
    \A i \in NodeIds : nodes[i].score = returned[i]

----------------------------------------------------------------------------
(* C7 *)

\* the one-step scenario: both actions of the root have their terminal child,
\* after which every further iteration selects a terminal child and changes
\* nothing
OneStepSearched ==
    /\ mdp = "OneStep"
    /\ pc = "idle"
    /\ Len(nodes[Root].children) = 2

\* C7 (as claimed): after a search of the one-step MDP that expanded both
\* actions, MostVisited and HighestQValue both return A.
C7_OneStepPrefersA ==
    OneStepSearched =>
        /\ BestAction(nodes, "MostVisited") = {Some("A")}
        /\ BestAction(nodes, "HighestQValue") = {Some("A")}

----------------------------------------------------------------------------
(* C8 *)

\* C8: an iteration of the driver loop that selected a terminal node leaves
\* the whole tree as it was when the iteration began.  An iteration that
\* selected a non-terminal node adds exactly one node, as the last child of
\* the selected node, and adds the return of simulate to the score, and 1 to
\* the visit count, of every node from the selected node up to the root; the
\* new child holds its creation score plus that return and has been visited;
\* nothing else in the tree changes.
C8_Iteration ==
    /\ IterationWasted => nodes = pre
    /\ IterationExpanded =>
         LET path == PathToRoot(pre, selected_node)
         IN  /\ Len(nodes) = Len(pre) + 1
             /\ child = Len(nodes)
             /\ reward = sim.cumulative_reward
             /\ Root \in path
             /\ nodes[child].parent = selected_node
             /\ nodes[child].children = <<>>
             /\ nodes[child].score = Unwrap(nodes[child].reward) + reward
             /\ nodes[child].visits >= 1
             /\ \A i \in DOMAIN pre :
                  /\ nodes[i].state = pre[i].state
                  /\ nodes[i].action = pre[i].action
                  /\ nodes[i].parent = pre[i].parent
                  /\ nodes[i].children =
                         IF i = selected_node THEN Append(pre[i].children, child)
                         ELSE pre[i].children
                  /\ nodes[i].visits =
                         pre[i].visits + (IF i \in path THEN 1 ELSE 0)
                  /\ nodes[i].score =
                         pre[i].score + (IF i \in path THEN reward ELSE 0)

\* C8 witness: an iteration has expanded a child of the root and brought a
\* return other than 0 up to the root, past a sibling that kept its numbers
C8_Witness ==
    /\ IterationExpanded
    /\ selected_node # Root
    /\ reward # 0
    /\ Len(nodes[Root].children) = 2
    /\ nodes[Root].score = pre[Root].score + reward

----------------------------------------------------------------------------
(* C9 *)

\* C9: a call of mcts with a deadline of 0 ms never enters the loop body: it
\* is at the loop condition or has returned, and the tree is the tree it was
\* called on.  On a new instance the root then has no children and
\* best_action returns None for each of the four strategies.
C9_ZeroDeadline ==
    (calls >= 1 /\ timeout = 0) =>
        /\ pc \in {"loop", "idle"}
        /\ nodes = pre
        /\ calls = 1 =>
             /\ nodes[Root].children = <<>>
             /\ \A strategy \in Strategies : BestAction(nodes, strategy) = {None}

\* C9 witness: the first search, with deadline 0, has returned and
\* best_action has answered None
C9_Witness ==
    /\ pc = "idle"
    /\ calls = 1
    /\ timeout = 0
    /\ best = [strategy |-> "HeuristicWin", action |-> None]

----------------------------------------------------------------------------
(* C10 *)

\* every legal action at the state of n has a child
AllActionsHaveChild(n) ==
    \A a \in LegalActions(n) : Some(a) \in Range(ChildActions(nodes, n))

\* C10: for every node of every tree the search reaches, is_full_expanded
\* holds exactly if every legal action at the node's state has a child, and
\* that holds exactly if the node has as many children as legal actions.
C10_FullyExpanded ==
    \A n \in NodeIds :
        /\ IsFullExpanded(mdp, nodes, n) <=> AllActionsHaveChild(n)
        /\ AllActionsHaveChild(n)
               <=> Len(nodes[n].children) = Len(GetActions(mdp, nodes[n].state))

\* C10 witness: the root has a child for each of its two actions, and one of
\* these children has a child for one of its two actions only
C10_Witness ==
    /\ IsFullExpanded(mdp, nodes, Root)
    /\ Len(nodes[Root].children) = 2
    /\ \E n \in NodeIds :
         /\ nodes[n].parent = Root
         /\ Len(nodes[n].children) = 1
         /\ Cardinality(LegalActions(n)) = 2
         /\ ~IsFullExpanded(mdp, nodes, n)

----------------------------------------------------------------------------
(* C11: expand adds exactly one child, for an action without a child *)

\* got is the tree and node of an expand call on n that appended one node to
\* the tree, as the last child of n, for a legal action that had no child
ExpandedOneChild(n, got) ==
    /\ Len(got.nodes) = Len(nodes) + 1
    /\ got.child = Len(nodes) + 1
    /\ got.nodes[n].children = Append(nodes[n].children, got.child)
    /\ got.nodes[got.child].parent = n
    /\ IsSome(got.nodes[got.child].action)
    /\ Unwrap(got.nodes[got.child].action) \in LegalActions(n)
    /\ got.nodes[got.child].action \notin Range(ChildActions(nodes, n))

\* C11: for every node of every tree the search reaches whose state is not
\* terminal and that is not fully expanded, expand can run, and every way it
\* can run creates exactly one new child of the node, whose action is a legal
\* action that had no child before; the node has one child more than before.
C11_ExpandAddsOneChild ==
    \A n \in NodeIds :
        (~IsTerminal(mdp, nodes[n].state) /\ ~IsFullExpanded(mdp, nodes, n))
            => /\ Expand(mdp, nodes, n) # {}
               /\ \A got \in Expand(mdp, nodes, n) : ExpandedOneChild(n, got)

\* C11 witness: the driver has just expanded a node that already had a child
\* for another action, and the new node is its last child.
C11_Witness ==
    /\ pc = "simulate"
    /\ sim.depth = 0
    /\ Len(pre[selected_node].children) >= 1
    /\ nodes[selected_node].children
           = Append(pre[selected_node].children, child)
    /\ child = Len(pre) + 1
    /\ nodes[child].action \notin Range(ChildActions(pre, selected_node))

----------------------------------------------------------------------------
(* C12: select on a node with a terminal state *)

\* a call of select on a node with a terminal state returns that node and
\* leaves the tree as it is
SelectTerminalStep ==
    (pc = "select" /\ IsTerminal(mdp, nodes[cur].state))
        => /\ pc' = "selected"
           /\ selected_node' = cur
           /\ nodes' = nodes

\* C12: whenever select is called on a node whose state is terminal, at the
\* root or down the descent, it returns that same node and no node of the
\* tree gets a child.
C12_SelectTerminal ==
    /\ [](\A n \in NodeIds :
              IsTerminal(mdp, nodes[n].state) => SelectStops(mdp, nodes, n))
    /\ [][SelectTerminalStep]_vars

\* C12 witness: select has returned a node below the root whose state is
\* terminal and that counts as fully expanded; the tree is the one the
\* iteration started with.
C12_Witness ==
    /\ pc = "selected"
    /\ selected_node # Root
    /\ IsTerminal(mdp, nodes[selected_node].state)
    /\ IsFullExpanded(mdp, nodes, selected_node)
    /\ nodes = pre

----------------------------------------------------------------------------
(* C13: expand on a node with a terminal state *)

\* C13: for every node of every tree the search reaches whose state is
\* terminal, expand has one outcome: it returns that same node and the tree
\* is unchanged, so the children, visits and score of every node are as
\* before.
C13_ExpandTerminal ==
    \A n \in NodeIds :
        IsTerminal(mdp, nodes[n].state)
            => Expand(mdp, nodes, n) = {[nodes |-> nodes, child |-> n]}

\* C13 witness: the tree holds a node with a terminal state for which the
\* MDP still lists actions, none of them with a child, so that only the
\* terminal test keeps expand from adding one.
C13_Witness ==
    \E n \in NodeIds :
        /\ IsTerminal(mdp, nodes[n].state)
        /\ nodes[n].children = <<>>
        /\ ExpandableActions(mdp, nodes, n) # <<>>
        /\ nodes[n].visits > 0

----------------------------------------------------------------------------
(* C14: Strategy::HighestQValue *)

\* the children of the root whose mean reward no other child exceeds
MaxQChildren ==
    LET ch == nodes[Root].children
    IN  {i \in DOMAIN ch :
            \A j \in DOMAIN ch : ~QLess(QValue(nodes[ch[i]]), QValue(nodes[ch[j]]))}

\* the first of them in children order
FirstMaxQChild ==
    nodes[Root].children[CHOOSE i \in MaxQChildren : \A j \in MaxQChildren : i <= j]

\* C14 (as claimed): a result of best_action under HighestQValue, for a root
\* with children, is the action of the first child, in children order, among
\* those with the highest mean reward.
C14_HighestQValueFirstOfTies ==
    (best.strategy = "HighestQValue" /\ nodes[Root].children # <<>>)
        => best.action = nodes[FirstMaxQChild].action

----------------------------------------------------------------------------
(* C15: Strategy::MostVisited *)

\* the children of the root that no other child has more visits than
MostVisitedChildren ==
    LET ch == Range(nodes[Root].children)
    IN  {c \in ch : \A d \in ch : nodes[d].visits <= nodes[c].visits}

\* C15: in every tree the search reaches whose root has children,
\* best_action under MostVisited has a result, and every result is the
\* action of a direct child of the root whose visit count is the maximum
\* over the root's children.
C15_MostVisited ==
    nodes[Root].children # <<>>
        => /\ BestAction(nodes, "MostVisited") # {}
           /\ \A a \in BestAction(nodes, "MostVisited") :
                  \E c \in MostVisitedChildren : a = nodes[c].action

\* C15 witness: best_action under MostVisited has returned the action of the
\* first of two children of the root, which has more visits than the second.
C15_Witness ==
    /\ best.strategy = "MostVisited"
    /\ Len(nodes[Root].children) = 2
    /\ nodes[nodes[Root].children[1]].visits
           > nodes[nodes[Root].children[2]].visits
    /\ best.action = nodes[nodes[Root].children[1]].action

----------------------------------------------------------------------------
(* C16: Strategy::HeuristicWin *)

\* the children of the root created by a transition with a positive reward
WinningChildren ==
    {c \in Range(nodes[Root].children) :
        IsSome(NodeReward(nodes[c])) /\ Unwrap(NodeReward(nodes[c])) > 0}

\* C16: in every tree the search reaches whose root has children, the
\* results of best_action under HeuristicWin are exactly the actions of the
\* children with a positive recorded transition reward if there is any such
\* child, and otherwise exactly the actions of the children whose mean reward
\* is the maximum; a child with a strictly lower mean reward is then never
\* returned.
C16_HeuristicWin ==
    nodes[Root].children # <<>>
        => BestAction(nodes, "HeuristicWin")
             = IF WinningChildren # {}
               THEN {nodes[c].action : c \in WinningChildren}
               ELSE {nodes[nodes[Root].children[i]].action : i \in MaxQChildren}

\* C16 witness: best_action under HeuristicWin has returned the action of
\* the one child of the root with a positive transition reward, and the root
\* has another child.
C16_Witness ==
    /\ best.strategy = "HeuristicWin"
    /\ Len(nodes[Root].children) = 2
    /\ Cardinality(WinningChildren) = 1
    /\ \E c \in WinningChildren : best.action = nodes[c].action

\* the other case: no child of the root has a positive transition reward and
\* one child has a lower mean reward than another
HeuristicWinNoWinner ==
    /\ pc = "idle"
    /\ WinningChildren = {}
    /\ MaxQChildren # DOMAIN nodes[Root].children

----------------------------------------------------------------------------
(* C17: the bandit returns untried actions first *)

\* the legal actions at n without a child
UntriedActions(n) ==
    {a \in LegalActions(n) : Some(a) \notin Range(ChildActions(nodes, n))}

\* what the bandit can return when asked at n with the legal actions of n
BanditAt(n) ==
    BanditSelect(q_table, nodes, n, GetActions(mdp, nodes[n].state))

\* a select call that descends does so from a node without untried actions
SelectDescendsStep ==
    (pc = "select" /\ cur' # cur) => UntriedActions(cur) = {}

\* C17: for every node of every tree the search reaches at which a legal
\* action has no child, the bandit returns an action, and only a legal
\* action without a child; and select descends into a child only from a
\* node at which every legal action has a child.
C17_UntriedFirst ==
    /\ [](\A n \in NodeIds :
              UntriedActions(n) # {}
                  => BanditAt(n) # {} /\ BanditAt(n) \subseteq UntriedActions(n))
    /\ [][SelectDescendsStep]_vars

\* C17 witness: select has stopped at a node with a non-terminal state that
\* has a visited child for one action and no child for another.
C17_Witness ==
    /\ pc = "selected"
    /\ ~IsTerminal(mdp, nodes[selected_node].state)
    /\ UntriedActions(selected_node) # {}
    /\ \E c \in Range(nodes[selected_node].children) : nodes[c].visits > 0
    /\ BanditAt(selected_node) \cap Range(Explored(nodes, selected_node)) = {}

----------------------------------------------------------------------------
(* C18: the mean reward in the bandit's score *)

\* the children of n have all been visited, equally often
EqualVisits(n) ==
    \A c, d \in Range(nodes[n].children) :
        nodes[c].visits > 0 /\ nodes[c].visits = nodes[d].visits

\* the actions of the children of n whose mean reward, score / visits as read
\* from the node, no other child of n exceeds
MaxMeanActions(n) ==
    LET ch == Range(nodes[n].children)
    IN  {Unwrap(nodes[c].action) :
            c \in {c \in ch : \A d \in ch :
                                ~QLess(QValue(nodes[c]), QValue(nodes[d]))}}

\* C18 (as claimed): when select asks the bandit at a node whose legal
\* actions all have children, and the children have equal visit counts, the
\* exploration terms are equal and the mean reward read from the node fields
\* decides: the bandit returns only the action of a child of maximal mean
\* reward.
C18_MeanRewardFromNodeFields ==
    (pc = "select" /\ ~SelectStops(mdp, nodes, cur) /\ EqualVisits(cur))
        => BanditAt(cur) \subseteq MaxMeanActions(cur)

----------------------------------------------------------------------------
(* C19: the N of the exploration term *)

\* the N the exploration term is computed from when the total is t
ExplorationN(t) == UcbValue(0, t, 1).total

\* C19 (as claimed): when select asks the bandit at a node, root or not, the
\* N of the exploration term is the visit count of that node, floored at 1.
C19_ParentVisits ==
    (pc = "select" /\ ~SelectStops(mdp, nodes, cur))
        => ExplorationN(BanditTotal(nodes, cur)) = ExplorationN(nodes[cur].visits)

----------------------------------------------------------------------------
(* C20: the bandit returns the actions of maximal score *)

\* sign of score(c) - score(d) for two children of n, the score being
\* mean_reward + C * sqrt(ln(max(N, 1)) / visits) with N the visits of n;
\* 2 where the two parts pull in opposite directions and the sign would
\* need their magnitudes
ScoreCmp(n, c, d) ==
    LET N == ExplorationN(nodes[n].visits)
        mean == IF QLess(QValue(nodes[d]), QValue(nodes[c])) THEN 1
                ELSE IF QLess(QValue(nodes[c]), QValue(nodes[d])) THEN -1
                ELSE 0
        expl == IF N = 1 \/ nodes[c].visits = nodes[d].visits THEN 0
                ELSE IF nodes[c].visits < nodes[d].visits THEN 1 ELSE -1
    IN  IF mean = 0 THEN expl
        ELSE IF expl = 0 \/ expl = mean THEN mean
        ELSE 2

\* every two children of n have been visited and have comparable scores
ScoresComparable(n) ==
    \A c, d \in Range(nodes[n].children) :
        nodes[c].visits > 0 /\ ScoreCmp(n, c, d) # 2

\* the actions of the children of n whose score no other child exceeds
MaxScoreActions(n) ==
    LET ch == Range(nodes[n].children)
    IN  {Unwrap(nodes[c].action) :
            c \in {c \in ch : \A d \in ch : ScoreCmp(n, c, d) >= 0}}

\* C20 (as claimed): when select asks the bandit at a node whose legal
\* actions all have children, the actions the bandit can return are exactly
\* those of the children whose score is the maximum: never one of strictly
\* lower score, and every one that attains the maximum.
C20_ReturnsMaximalScore ==
    (pc = "select" /\ ~SelectStops(mdp, nodes, cur) /\ ScoresComparable(cur))
        => BanditAt(cur) = MaxScoreActions(cur)

\* the value UCB1::select computes for the child c of n
ValueOf(n, c) ==
    UcbValue(GetQValue(q_table, c), BanditTotal(nodes, n), nodes[c].visits)

\* Over the values the code computes, the collection of the maxima is as
\* claimed: the bandit can return exactly the actions of the children whose
\* value no other child exceeds, whatever their position among the children.
BanditReturnsOwnMaxima ==
    (pc = "select" /\ ~SelectStops(mdp, nodes, cur))
        => BanditAt(cur)
             = {Unwrap(nodes[c].action) :
                  c \in {c \in Range(nodes[cur].children) :
                           \A d \in Range(nodes[cur].children) :
                               ValueCmp(ValueOf(cur, c), ValueOf(cur, d)) >= 0}}

----------------------------------------------------------------------------
(* C21: zero candidate actions *)

\* the state of n is not terminal and has no legal action
NoLegalAction(s) == ~IsTerminal(mdp, s) /\ GetActions(mdp, s) = <<>>

\* a step that calls the bandit, the rollout policy or choose with an empty
\* list ends in the panic and changes nothing else; the panic is final
ZeroCandidatesStep ==
    /\ (pc = "select" /\ ~SelectStops(mdp, nodes, cur)
           /\ GetActions(mdp, nodes[cur].state) = <<>>)
          => (pc' = "panic" /\ nodes' = nodes)
    /\ (pc = "selected" /\ ~IsTerminal(mdp, nodes[selected_node].state)
           /\ ExpandableActions(mdp, nodes, selected_node) = <<>>)
          => (pc' = "panic" /\ nodes' = nodes)
    /\ (pc = "simulate" /\ NoLegalAction(sim.state)
           /\ BeforeDeadline(elapsed, timeout) /\ elapsed' = elapsed)
          => (pc' = "panic" /\ nodes' = nodes /\ sim' = sim)
    /\ pc = "panic" => pc' = "panic"

\* C21: the rollout policy given no action returns nothing, the bandit asked
\* at a node whose state has no legal action returns nothing (the assertion
\* of genrand fails in both), and a search whose select or simulation comes
\* to a non-terminal state without legal actions and asks for an action
\* there ends in the panic instead of going on.
C21_ZeroCandidatesAbort ==
    /\ [](/\ Pick(<<>>) = {}
          /\ \A n \in NodeIds :
                GetActions(mdp, nodes[n].state) = <<>> => BanditAt(n) = {})
    /\ [][ZeroCandidatesStep]_vars

\* C21 witness: the search has aborted in select, at a node below the root
\* whose state is not terminal and has no legal action.
C21_Witness ==
    /\ pc = "panic"
    /\ cur # Root
    /\ cur \in NodeIds
    /\ NoLegalAction(nodes[cur].state)
    /\ selected_node = 0

\* the abort inside a simulation
SimulationAborted ==
    /\ pc = "panic"
    /\ NoLegalAction(sim.state)
    /\ selected_node # 0

----------------------------------------------------------------------------
(* C22: the tree at the start of a search *)

\* the tree MCTS::new builds: the root alone, for the initial state
FreshTree == <<NewNode(GetInitialState(mdp), None, None, 0)>>

\* a call of MCTS::mcts starts from the fresh tree
SearchStartsFreshStep ==
    (pc = "idle" /\ pc' = "loop") => nodes' = FreshTree

\* C22 (as claimed): whenever the search driver is run, also when it has
\* been run before on the same instance, the search starts from a root for
\* the initial state without children and without visits, and no node of the
\* previous tree is left.
C22_NewSearchDiscardsTree == [][SearchStartsFreshStep]_vars

----------------------------------------------------------------------------
(* C23: Strategy::Probabilistic on two children of equal mean reward *)

\* the root has two children, of equal mean reward
TwoEqualChildren ==
    /\ Len(nodes[Root].children) = 2
    /\ QEqual(QValue(nodes[nodes[Root].children[1]]),
              QValue(nodes[nodes[Root].children[2]]))

\* of all draws of genrand(0, 10_000), the number for which the walk over
\* two probabilities 1/2 returns the first, and the second, child
FirstOfTwoDraws ==
    Cardinality({r \in genrand(0, SoftmaxDraws) : UniformWalk(2, r) = 1})

SecondOfTwoDraws ==
    Cardinality({r \in genrand(0, SoftmaxDraws) : UniformWalk(2, r) = 2})

\* C23: when the root has two children of equal mean reward, the results of
\* best_action under Probabilistic are the actions of both children; every
\* draw returns one of the two, the first child for the draws up to half of
\* the range and the second for the others, and the two shares of the draws
\* differ by less than one percent of the draws.
C23_ProbabilisticEvenSplit ==
    TwoEqualChildren
        => /\ BestAction(nodes, "Probabilistic")
                = {nodes[c].action : c \in Range(nodes[Root].children)}
           /\ \A r \in UniformDraws(2) :
                  UniformWalk(2, r) = IF 2 * r <= SoftmaxDraws THEN 1 ELSE 2
           /\ FirstOfTwoDraws + SecondOfTwoDraws = SoftmaxDraws
           /\ (FirstOfTwoDraws - SecondOfTwoDraws) * 100 < SoftmaxDraws
           /\ (SecondOfTwoDraws - FirstOfTwoDraws) * 100 < SoftmaxDraws

\* C23 witness: best_action under Probabilistic has returned the action of
\* the second of two children of equal mean reward, which the fallback to
\* the first child cannot give.
C23_Witness ==
    /\ best.strategy = "Probabilistic"
    /\ TwoEqualChildren
    /\ nodes[nodes[Root].children[1]].visits > 0
    /\ best.action = nodes[nodes[Root].children[2]].action

----------------------------------------------------------------------------
(* C24: select terminates and adds no node *)

\* A call of select on cur either returns cur, which then is terminal or not
\* fully expanded, or goes on with a child of cur that exists already, or
\* aborts because the state of cur has no legal action (C21); the tree is the
\* same after it.  A child comes after its parent in the arena, so the
\* descent stops after at most as many calls as the tree has nodes.
SelectStep ==
    pc = "select"
        => /\ nodes' = nodes
           /\ \/ /\ pc' = "selected"
                 /\ selected_node' = cur
                 /\ \/ IsTerminal(mdp, nodes[cur].state)
                    \/ ~AllActionsHaveChild(cur)
              \/ /\ pc' = "select"
                 /\ cur' \in Range(nodes[cur].children)
                 /\ cur' > cur
              \/ /\ pc' = "panic"
                 /\ NoLegalAction(nodes[cur].state)

\* C24: select starts at the root; every one of its calls can run, returns
\* its node, which is terminal or not fully expanded, or descends into an
\* existing child, strictly deeper in a finite tree, and the tree is never
\* changed by it; select aborts only at a state without legal actions.
C24_SelectTerminates ==
    /\ [](pc = "select" => cur \in NodeIds /\ ENABLED Select)
    /\ [][pc # "select" /\ pc' = "select" => cur' = Root]_vars
    /\ [][SelectStep]_vars

\* C24 witness: select has gone down two levels through existing children
\* and returned a node there; the tree is as it was when select started.
C24_Witness ==
    /\ pc = "selected"
    /\ nodes[selected_node].parent \notin {0, Root}
    /\ nodes = pre

----------------------------------------------------------------------------
(* C25: get_outcome_child creates the child of an action without one *)

\* got is the result of get_outcome_child on n for the action a and the
\* execute outcome o: one node more, the last child of n, carrying a, the
\* state and the reward of o and the link to n; nothing else has changed
CreatedChild(n, a, o, got) ==
    LET new == got.nodes[got.child]
    IN  /\ Len(got.nodes) = Len(nodes) + 1
        /\ got.child = Len(nodes) + 1
        /\ new.action = Some(a)
        /\ new.state = o.state
        /\ new.score = o.reward
        /\ NodeReward(new) = Some(o.reward)
        /\ new.parent = n
        /\ new.children = <<>>
        /\ got.nodes[n] = [nodes[n] EXCEPT !.children = Append(@, got.child)]
        /\ \A k \in NodeIds \ {n} : got.nodes[k] = nodes[k]
        /\ got.nodes[Root].parent = 0

\* C25: for every node of every tree the search reaches, every legal action
\* at it without a child and every outcome execute can sample for it,
\* get_outcome_child appends exactly one new child at the end of the node's
\* children, with that action, the state and reward of the outcome and the
\* node as its parent; the existing children, their order and all other
\* nodes are unchanged, and the root has no parent link.
C25_CreatesChild ==
    /\ nodes[Root].parent = 0
    /\ \A n \in NodeIds : \A a \in UntriedActions(n) :
          \A o \in ExecuteOutcomes(mdp, nodes[n].state, a) :
              CreatedChild(n, a, o, GetOutcomeChild(nodes, n, a, o))

\* C25 witness: expand has just created, through get_outcome_child, the
\* second child of a node, for a transition with a positive reward; the
\* first child is where it was.
C25_Witness ==
    /\ pc = "simulate"
    /\ sim.depth = 0
    /\ Len(nodes[selected_node].children) = 2
    /\ nodes[selected_node].children[1] = pre[selected_node].children[1]
    /\ nodes[selected_node].children[2] = child
    /\ nodes[child].parent = selected_node
    /\ nodes[child].state = sim.state
    /\ Unwrap(NodeReward(nodes[child])) > 0

----------------------------------------------------------------------------
(* C26: expand always has a candidate *)

\* the driver is about to call expand on the selected node
ExpandCalled ==
    pc = "selected" /\ ~IsTerminal(mdp, nodes[selected_node].state)

\* C26: whenever the driver calls expand, the selected node has a legal
\* action without a child, the candidate list handed to the rollout policy
\* is not empty and the policy returns an action of it; and the step that
\* expands never ends in the abort.
C26_ExpandHasCandidate ==
    /\ [](ExpandCalled
            => /\ UntriedActions(selected_node) # {}
               /\ ExpandableActions(mdp, nodes, selected_node) # <<>>
               /\ Pick(ExpandableActions(mdp, nodes, selected_node)) # {}
               /\ Pick(ExpandableActions(mdp, nodes, selected_node))
                      \subseteq UntriedActions(selected_node))
    /\ [][pc = "selected" => pc' # "panic"]_vars

\* C26 witness: the driver is about to expand a node below the root that has
\* a child already and exactly one legal action left without one.
C26_Witness ==
    /\ ExpandCalled
    /\ selected_node # Root
    /\ nodes[selected_node].children # <<>>
    /\ Cardinality(UntriedActions(selected_node)) = 1

----------------------------------------------------------------------------
(* C27: the arithmetic of the visit counts *)

\* no iteration of the driver loop is under way
BetweenIterations == pc \in {"loop", "idle"}

\* C27 (as claimed): between iterations the root's visit count is the number
\* of non-root nodes, one for each iteration that selected a non-terminal
\* node (such an iteration adds exactly one node, C8), and the visit count
\* of every node is the sum of the visit counts of its children, plus 1 if
\* the node is not the root.
C27_VisitArithmetic ==
    BetweenIterations
        => /\ nodes[Root].visits = Len(nodes) - 1
           /\ \A n \in NodeIds :
                  nodes[n].visits
                      = BanditTotal(nodes, n) + (IF n = Root THEN 0 ELSE 1)

----------------------------------------------------------------------------
(* C28: no child is unvisited when the bandit scores it *)

\* the scan of UCB1::select over the children of n
ScanAt(n) ==
    UcbScan(q_table, nodes, nodes[n].children, 1, BanditTotal(nodes, n),
            None, <<>>)

\* C28: between iterations every node but the root has been visited at
\* least once; and whenever select asks the bandit at a fully expanded node,
\* every child of the node has been visited and the scan over the children
\* does not take the early return for a child without visits.
C28_ChildrenVisited ==
    /\ BetweenIterations
          => \A n \in NodeIds \ {Root} : nodes[n].visits >= 1
    /\ (pc = "select" /\ ~SelectStops(mdp, nodes, cur))
          => /\ \A c \in Range(nodes[cur].children) : nodes[c].visits >= 1
             /\ ScanAt(cur).ret = None

\* C28 witness: select asks the bandit at a fully expanded node below the
\* root that has children, after iterations that created them.
C28_Witness ==
    /\ pc = "select"
    /\ cur # Root
    /\ ~SelectStops(mdp, nodes, cur)
    /\ nodes[cur].children # <<>>
    /\ ScanAt(cur).best_actions # <<>>

====
